---- MODULE Spec2Model ----
(***************************************************************************)
(* Model of scripts/csv_to_json.py: parse_value, convert and main.         *)
(*                                                                         *)
(* A cell is a sequence of one-character strings.  A file of the PUBLIC    *)
(* directory is a record: a CSV input holds its header and its data rows   *)
(* (each row aligned with the header, as csv.DictReader keys it), a JSON   *)
(* output holds the dumped object as its ordered list of key/array pairs.  *)
(*                                                                         *)
(* Three specifications share the state:                                   *)
(*   SpecParse    one call of parse_value on any string up to MaxLen;      *)
(*   SpecConvert  one call of convert on any table up to MaxRows rows;     *)
(*   Spec         main run twice in succession over NumFiles entries.      *)
(* An uncaught exception ends a run in pc = "aborted".                     *)
(***************************************************************************)
EXTENDS Integers, Sequences, FiniteSets, TLC

VARIABLES fs, console, pc, idx, run, first, writes, zero_cols,
          cell, result, tieUp

vars == <<fs, console, pc, idx, run, first, writes, zero_cols,
          cell, result, tieUp>>

(***************************************************************************)
(* Bounds of the model.                                                    *)
(***************************************************************************)
\* longest cell string parse_value is applied to in SpecParse
MaxLen == 5
\* most data rows of the input converted in SpecConvert
MaxRows == 2
\* number of FILE_MAP entries (a prefix of the table) a run iterates over
NumFiles == 2

(***************************************************************************)
(* Characters and strings.                                                 *)
(***************************************************************************)
\* the characters cells are drawn from: digits, point, sign, exponent mark,
\* blank and a letter.  The literals inf and nan, "+", "_" and digits other
\* than these cannot be spelled with them.
Chars == {"0", "4", "5", ".", "-", "e", " ", "a"}

DigitVal(c) ==
    CASE c = "0" -> 0 [] c = "1" -> 1 [] c = "2" -> 2 [] c = "3" -> 3
      [] c = "4" -> 4 [] c = "5" -> 5 [] c = "6" -> 6 [] c = "7" -> 7
      [] c = "8" -> 8 [] c = "9" -> 9

IsDigit(c) == c \in {"0", "1", "2", "3", "4", "5", "6", "7", "8", "9"}

IsSpace(c) == c \in {" ", "\t", "\n", "\r"}

RECURSIVE Strings(_)
Strings(n) ==
    IF n = 0 THEN {<<>>}
    ELSE LET shorter == Strings(n - 1)
         IN  shorter \cup {Append(s, c) : s \in {t \in shorter : Len(t) = n - 1},
                                          c \in Chars}

RECURSIVE lstrip(_)
lstrip(s) == IF s # <<>> /\ IsSpace(Head(s)) THEN lstrip(Tail(s)) ELSE s

RECURSIVE rstrip(_)
rstrip(s) ==
    IF s # <<>> /\ IsSpace(s[Len(s)]) THEN rstrip(SubSeq(s, 1, Len(s) - 1)) ELSE s

\* str.strip()
strip(s) == rstrip(lstrip(s))

AllDigits(s) == \A i \in 1..Len(s) : IsDigit(s[i])

\* the value of a digit string, 0 for the empty one
RECURSIVE DigitsValue(_)
DigitsValue(s) ==
    IF s = <<>> THEN 0
    ELSE 10 * DigitsValue(SubSeq(s, 1, Len(s) - 1)) + DigitVal(s[Len(s)])

\* index of the first occurrence of a character of cs in s, 0 when there is none
RECURSIVE FindFrom(_, _, _)
FindFrom(s, cs, i) ==
    IF i > Len(s) THEN 0
    ELSE IF s[i] \in cs THEN i
    ELSE FindFrom(s, cs, i + 1)

Find(s, cs) == FindFrom(s, cs, 1)

RECURSIVE Pow10(_)
Pow10(k) == IF k <= 0 THEN 1 ELSE 10 * Pow10(k - 1)

RECURSIVE NumDigits(_)
NumDigits(m) == IF m < 10 THEN 1 ELSE 1 + NumDigits(m \div 10)

(***************************************************************************)
(* Values: what parse_value returns and json.dump writes.  Every value is  *)
(* a record of the same shape; a number is neg, m and e, standing for      *)
(* (-1)^neg * m * 10^e with m free of trailing zeros.                      *)
(***************************************************************************)
Val(kind, neg, m, e, s) == [kind |-> kind, neg |-> neg, m |-> m, e |-> e, s |-> s]

NoneVal == Val("None", FALSE, 0, 0, <<>>)

StrVal(s) == Val("str", FALSE, 0, 0, s)

IntVal(neg, m) == Val("int", neg /\ m # 0, m, 0, <<>>)

RECURSIVE Normalize(_, _)
Normalize(m, e) ==
    IF m = 0 THEN <<0, 0>>
    ELSE IF m % 10 = 0 THEN Normalize(m \div 10, e + 1)
    ELSE <<m, e>>

FloatVal(neg, m, e) ==
    LET n == Normalize(m, e) IN Val("float", neg, n[1], n[2], <<>>)

\* an exception that parse_value does not catch
Raised(name) == Val(name, FALSE, 0, 0, <<>>)

IsRaised(v) == v.kind \notin {"None", "str", "int", "float"}

(***************************************************************************)
(* float(val) on a stripped string over Chars: [sign] digits [. digits]    *)
(* [e [sign] digits] with at least one mantissa digit.  ok = FALSE is      *)
(* ValueError.  The decimal m * 10^e is read into an IEEE double: inf      *)
(* above the largest double, 0 below half of the smallest one.             *)
(***************************************************************************)
\* the first six significant digits of m > 0
Scaled6(m) ==
    LET d == NumDigits(m)
    IN  IF d <= 6 THEN m * Pow10(6 - d) ELSE m \div Pow10(d - 6)

\* the double that the decimal (-1)^neg * m * 10^e is read into
to_double(neg, m, e) ==
    IF m # 0 /\ (NumDigits(m) - 1 + e > 308
                 \/ (NumDigits(m) - 1 + e = 308 /\ Scaled6(m) >= 179770))
    THEN [ok |-> TRUE, neg |-> neg, inf |-> TRUE, m |-> 0, e |-> 0]
    ELSE IF m = 0 \/ NumDigits(m) - 1 + e < -324
                  \/ (NumDigits(m) - 1 + e = -324 /\ Scaled6(m) <= 247032)
    THEN [ok |-> TRUE, neg |-> neg, inf |-> FALSE, m |-> 0, e |-> 0]
    ELSE [ok |-> TRUE, neg |-> neg, inf |-> FALSE,
          m |-> Normalize(m, e)[1], e |-> Normalize(m, e)[2]]

\* the numeral split at its exponent mark (at ePos, 0 when it has none) and point
float_parts(neg, mant, hasExp, expo) ==
    LET dot  == Find(mant, {"."})
        ip   == IF dot = 0 THEN mant ELSE SubSeq(mant, 1, dot - 1)
        fp   == IF dot = 0 THEN <<>> ELSE SubSeq(mant, dot + 1, Len(mant))
        esgn == IF expo # <<>> /\ expo[1] \in {"-", "+"} THEN 1 ELSE 0
        ed   == SubSeq(expo, esgn + 1, Len(expo))
    IN  IF /\ AllDigits(ip) /\ AllDigits(fp)
           /\ Len(ip) + Len(fp) >= 1
           /\ (~hasExp \/ (ed # <<>> /\ AllDigits(ed)))
        THEN to_double(neg, DigitsValue(ip \o fp),
                       (IF esgn = 1 /\ expo[1] = "-"
                        THEN 0 - DigitsValue(ed) ELSE DigitsValue(ed)) - Len(fp))
        ELSE [ok |-> FALSE, neg |-> FALSE, inf |-> FALSE, m |-> 0, e |-> 0]

float_body(neg, body, ePos) ==
    IF ePos = 0 THEN float_parts(neg, body, FALSE, <<>>)
    ELSE float_parts(neg, SubSeq(body, 1, ePos - 1), TRUE,
                     SubSeq(body, ePos + 1, Len(body)))

float_signed(neg, body) == float_body(neg, body, Find(body, {"e", "E"}))

float(val) ==
    IF val # <<>> /\ val[1] \in {"-", "+"}
    THEN float_signed(val[1] = "-", Tail(val))
    ELSE float_signed(FALSE, val)

\* int(val) on a stripped string over Chars: [sign] digits; ok = FALSE is ValueError
int(val) ==
    LET sgn  == IF val # <<>> /\ val[1] \in {"-", "+"} THEN 1 ELSE 0
        body == SubSeq(val, sgn + 1, Len(val))
    IN  [ok |-> body # <<>> /\ AllDigits(body),
         neg |-> sgn = 1 /\ val[1] = "-",
         m |-> IF AllDigits(body) THEN DigitsValue(body) ELSE 0]

\* f == int(f) for a finite double f
IsWhole(f) == f.e >= 0

(***************************************************************************)
(* round(f, 2): the nearest multiple of 0.01.  A decimal exactly halfway   *)
(* between two of them is a double slightly above or below the midpoint    *)
(* (0.005 rounds to 0.01, 0.045 to 0.04), which the decimal does not show: *)
(* up says which side this one lies on.                                    *)
(***************************************************************************)
round2(f, up) ==
    IF f.e >= -2 THEN FloatVal(f.neg, f.m, f.e)
    ELSE LET k == 0 - f.e - 2
         IN  IF k > NumDigits(f.m) THEN FloatVal(f.neg, 0, 0)
             ELSE LET P    == Pow10(k)
                      q    == f.m \div P
                      r    == f.m % P
                      half == P \div 2
                      h    == IF r > half \/ (r = half /\ up) THEN q + 1 ELSE q
                  IN  FloatVal(f.neg, h, -2)

\* the try block of parse_value: v is the stripped cell and f is float(v)
parse_number(v, f, up) ==
    IF ~f.ok THEN StrVal(v)
    ELSE IF f.inf THEN Raised("OverflowError")
    ELSE IF IsWhole(f) /\ Find(v, {"."}) = 0
         THEN IF int(v).ok THEN IntVal(int(v).neg, int(v).m) ELSE StrVal(v)
    ELSE round2(f, up)

parse_stripped(v, up) == IF v = <<>> THEN NoneVal ELSE parse_number(v, float(v), up)

\* parse_value that strips only for the emptiness test and the numeric parse
parse_value_unstripped(val, up) ==
    IF parse_stripped(strip(val), up).kind = "str" THEN StrVal(val)
    ELSE parse_stripped(strip(val), up)

parse_value(val, up) == parse_stripped(strip(val), up)

(***************************************************************************)
(* SpecParse: parse_value applied once to a cell drawn from the strings    *)
(* over Chars of length at most MaxLen.                                    *)
(***************************************************************************)
Unset == Raised("unset")

InitParse ==
    /\ cell \in Strings(MaxLen)
    /\ tieUp \in BOOLEAN
    /\ result = Unset
    /\ pc = "parse"
    /\ fs = <<>> /\ console = <<>> /\ idx = 0 /\ run = 0
    /\ first = <<>> /\ writes = <<>> /\ zero_cols = {}

ApplyParse ==
    /\ pc = "parse"
    /\ result' = parse_value(cell, tieUp)
    /\ pc' = "parsed"
    /\ UNCHANGED <<fs, console, idx, run, first, writes, zero_cols, cell, tieUp>>

NextParse == ApplyParse

SpecParse == InitParse /\ [][NextParse]_vars

(***************************************************************************)
(* The PUBLIC directory and the console.                                   *)
(***************************************************************************)
\* FILE_MAP in insertion order, as FILE_MAP.items() yields it
FILE_MAP ==
    << <<"calculation.csv", "calc_15min_consumption_2024.json">>,
       <<"calculation (1).csv", "calc_15min_pv_2025.json">>,
       <<"calculation (2).csv", "calc_15min_partial_2025.json">>,
       <<"calculation (3).csv", "calc_15min_generator_2025.json">>,
       <<"calculation (4).csv", "calc_15min_battery_2024.json">>,
       <<"calculation_per_day.csv", "calc_daily_consumption_2024.json">>,
       <<"calculation_per_day (1).csv", "calc_daily_simple_2024.json">>,
       <<"calculation_per_day (2).csv", "calc_daily_pv_2024.json">>,
       <<"calculation_per_month.csv", "calc_monthly_2024.json">>,
       <<"input_profiles.csv", "profiles_15min_consumption_2024.json">>,
       <<"input_profiles (1).csv", "profiles_15min_pv_2025.json">>,
       <<"input_profiles (2).csv", "profiles_15min_partial_2025.json">>,
       <<"input_profiles (3).csv", "profiles_15min_extra_2025.json">>,
       <<"input_profiles (4).csv", "profiles_15min_full_2024.json">> >>

\* the pairs the loop of main visits, last first
items_reversed ==
    [k \in 1..NumFiles |-> FILE_MAP[NumFiles + 1 - k]]

\* the pairs the loop of main visits: the first NumFiles of FILE_MAP.items()
items == SubSeq(FILE_MAP, 1, NumFiles)

CsvNames == {items[k][1] : k \in 1..Len(items)}

JsonNames == {items[k][2] : k \in 1..Len(items)}

NoFile == [exists |-> FALSE, header |-> <<>>, rows |-> <<>>, doc |-> <<>>]

\* a CSV file as csv.DictReader reads it: fieldnames, and one tuple of cells
\* per data row, keyed by position in the header.  Column names are distinct
\* and every row has one cell per column: a row with fewer or more fields than
\* the header, and a blank line (which the reader skips), are not modelled.
CsvFile(header, rows) ==
    [exists |-> TRUE, header |-> header, rows |-> rows, doc |-> <<>>]

\* a JSON file: the dumped object as its key/array pairs in key order
JsonFile(doc) == [exists |-> TRUE, header |-> <<>>, rows |-> <<>>, doc |-> doc]

Line(kind, csv, json, n_rows, kept, total, dropped, none) ==
    [kind |-> kind, csv |-> csv, json |-> json, n_rows |-> n_rows,
     kept |-> kept, total |-> total, dropped |-> dropped, none |-> none]

StartBanner == Line("Converting CSV -> JSON ...", "", "", 0, 0, 0, <<>>, FALSE)

DoneBanner == Line("Done.", "", "", 0, 0, 0, <<>>, FALSE)

MissingLine(csv_name) == Line("MISSING", csv_name, "", 0, 0, 0, <<>>, FALSE)

SkipLine(csv_name) == Line("SKIP", csv_name, "", 0, 0, 0, <<>>, FALSE)

\* the column names of the model in lexicographic order
SortedNames == <<"a", "b", "date", "month", "timestamps">>

\* sorted(zero_cols)
sorted(S) == SelectSeq(SortedNames, LAMBDA c : c \in S)

ReportLine(csv_name, json_name, n_rows, orig_cols, dropped, zc) ==
    Line("report", csv_name, json_name, n_rows, orig_cols - dropped, orig_cols,
         IF zc # {} THEN sorted(zc) ELSE <<>>, zc = {})

(***************************************************************************)
(* convert                                                                 *)
(***************************************************************************)
\* row[col]
Cell(row, headers, col) == row[Find(headers, {col})]

\* float(val) != 0.0, or float(val) raising ValueError: the row ends the loop
ends_all_zero(f) == ~f.ok \/ f.inf \/ f.m # 0

\* the stripped cell val of a row leaves all_zero set
keeps_all_zero(val) == val = <<>> \/ ~ends_all_zero(float(val))

\* the loop over the rows of one column from row i on: the value of all_zero
RECURSIVE all_zero(_, _, _, _)
all_zero(rows, headers, col, i) ==
    IF i > Len(rows) THEN TRUE
    ELSE IF keeps_all_zero(strip(Cell(rows[i], headers, col)))
         THEN all_zero(rows, headers, col, i + 1)
    ELSE FALSE

\* the drop decision without the exemption of the timestamps column
in_zero_cols_no_exemption(col, headers, rows) ==
    IF col \in {"date", "month"} THEN TRUE
    ELSE all_zero(rows, headers, col, 1)

\* the body of the loop over headers: whether col is added to zero_cols
in_zero_cols(col, headers, rows) ==
    IF col \in {"date", "month"} THEN TRUE
    ELSE IF col = "timestamps" THEN FALSE
    ELSE all_zero(rows, headers, col, 1)

find_zero_cols(headers, rows) ==
    {headers[j] : j \in {i \in 1..Len(headers) : in_zero_cols(headers[i], headers, rows)}}

Reverse(s) == [j \in 1..Len(s) |-> s[Len(s) + 1 - j]]

\* the kept columns, last first
keep_cols_reversed(headers, zc) == Reverse(SelectSeq(headers, LAMBDA c : c \notin zc))

keep_cols(headers, zc) == SelectSeq(headers, LAMBDA c : c \notin zc)

\* columns after the first i rows were appended: one key/array pair per kept column
RECURSIVE build_columns(_, _, _, _)
build_columns(rows, headers, keep, i) ==
    IF keep = <<>> THEN <<>>
    ELSE IF i = 0 THEN [j \in 1..Len(keep) |-> [key |-> keep[j], vals |-> <<>>]]
    ELSE LET prev == build_columns(rows, headers, keep, i - 1)
         IN  [j \in 1..Len(keep) |->
                [key  |-> keep[j],
                 vals |-> Append(prev[j].vals,
                                 parse_value(Cell(rows[i], headers, keep[j]), tieUp))]]

\* the exception a parse_value call of the build loop raised, "" when none did
BuildRaised(columns) ==
    IF \E j \in 1..Len(columns) : \E i \in 1..Len(columns[j].vals) :
           IsRaised(columns[j].vals[i])
    THEN "OverflowError" ELSE ""

\* what a call of convert leaves: the directory, the console, the exception that
\* ended it ("" when it returned), its zero_cols, and the paths it opened for writing
Outcome(files, out, raised, zc, wrote) ==
    [fs |-> files, console |-> out, raised |-> raised, zero_cols |-> zc, wrote |-> wrote]

\* convert opening json_path for appending
write_json_append(files, json_name, columns) ==
    [files EXCEPT ![json_name] = JsonFile(files[json_name].doc \o columns)]

\* open(json_path, "w") and json.dump
write_json(files, json_name, columns) ==
    [files EXCEPT ![json_name] = JsonFile(columns)]

\* the emptiness test of convert left out
never_empty(rows) == FALSE

\* not rows
no_rows(rows) == rows = <<>>

\* lines 87-93: the dump of columns, then the report
write_and_report(csv_name, json_name, files, out, headers, zc, columns) ==
    IF columns = <<>>
    THEN Outcome(write_json(files, json_name, columns), out, "StopIteration", zc, <<json_name>>)
    ELSE Outcome(write_json(files, json_name, columns),
                 Append(out, ReportLine(csv_name, json_name, Len(columns[1].vals),
                                        Len(headers), Cardinality(zc), zc)),
                 "", zc, <<json_name>>)

\* lines 80-93, columns being what the build loop made
convert_columns(csv_name, json_name, files, out, headers, zc, columns) ==
    IF BuildRaised(columns) # ""
    THEN Outcome(files, out, "OverflowError", zc, <<>>)
    ELSE write_and_report(csv_name, json_name, files, out, headers, zc, columns)

\* lines 80-93, zc being zero_cols
convert_kept(csv_name, json_name, files, out, headers, rows, zc) ==
    convert_columns(csv_name, json_name, files, out, headers, zc,
                    build_columns(rows, headers, keep_cols(headers, zc), Len(rows)))

\* lines 51-93, rows and headers being what the reader gave
convert_rows(csv_name, json_name, files, out, headers, rows) ==
    IF no_rows(rows)
    THEN Outcome(files, Append(out, SkipLine(csv_name)), "", {}, <<>>)
    ELSE convert_kept(csv_name, json_name, files, out, headers, rows,
                      find_zero_cols(headers, rows))

\* convert with json_path joined from csv_name
convert_over_input(csv_name, json_name, files, out) ==
    convert_rows(csv_name, csv_name, files, out,
                 files[csv_name].header, files[csv_name].rows)

convert(csv_name, json_name, files, out) ==
    convert_rows(csv_name, json_name, files, out,
                 files[csv_name].header, files[csv_name].rows)

(***************************************************************************)
(* main, run twice in succession on the same directory.                    *)
(***************************************************************************)
\* os.path.exists(csv_path)
exists(files, csv_name) == files[csv_name].exists

\* what a run remembers of the state it started from
Snapshot(files, out, at) == [fs |-> files, console |-> out, pc |-> at]

Start ==
    /\ pc = "start"
    /\ console' = Append(console, StartBanner)
    /\ pc' = "loop"
    /\ idx' = 1
    /\ UNCHANGED <<fs, run, first, writes, zero_cols, cell, result, tieUp>>

Missing ==
    /\ pc = "loop"
    /\ idx <= Len(items)
    /\ ~exists(fs, items[idx][1])
    /\ console' = Append(console, MissingLine(items[idx][1]))
    /\ idx' = idx + 1
    /\ UNCHANGED <<fs, pc, run, first, writes, zero_cols, cell, result, tieUp>>

Convert ==
    /\ pc = "loop"
    /\ idx <= Len(items)
    /\ exists(fs, items[idx][1])
    /\ LET r == convert(items[idx][1], items[idx][2], fs, console)
       IN  /\ fs' = r.fs
           /\ console' = r.console
           /\ zero_cols' = r.zero_cols
           /\ writes' = writes \o r.wrote
           /\ IF r.raised # ""
              THEN pc' = "aborted" /\ idx' = idx
              ELSE pc' = pc /\ idx' = idx + 1
    /\ UNCHANGED <<run, first, cell, result, tieUp>>

Finish ==
    /\ pc = "loop"
    /\ idx > Len(items)
    /\ console' = Append(console, DoneBanner)
    /\ pc' = "done"
    /\ UNCHANGED <<fs, idx, run, first, writes, zero_cols, cell, result, tieUp>>

\* the script is started a second time once the first process has ended
Rerun ==
    /\ pc \in {"done", "aborted"}
    /\ run = 1
    /\ first' = Snapshot(fs, console, pc)
    /\ run' = 2
    /\ pc' = "start"
    /\ idx' = 0
    /\ console' = <<>>
    /\ writes' = <<>>
    /\ zero_cols' = {}
    /\ UNCHANGED <<fs, cell, result, tieUp>>

(***************************************************************************)
(* The inputs of a run.  Each configured input is missing, header-only or  *)
(* a table of one data row; each configured output is absent or left over  *)
(* from an earlier conversion.                                             *)
(***************************************************************************)
RunHeaders == {<<"timestamps", "a">>, <<"date">>}

\* 5e400 is read as inf; no cell here is a rounding tie, so tieUp is not consulted
RunCells == {<<"0">>, <<"5">>, <<" ", "a">>, <<"5", "e", "4", "0", "0">>}

RowsOver(headers, cells) == [1..Len(headers) -> cells]

RunInputs ==
    {NoFile}
      \cup {CsvFile(h, <<>>) : h \in RunHeaders}
      \cup UNION {{CsvFile(h, <<r>>) : r \in RowsOver(h, RunCells)} : h \in RunHeaders}

OldOutput == JsonFile(<<[key |-> "old", vals |-> <<NoneVal>>]>>)

Directory(ins, outs) ==
    [n \in CsvNames \cup JsonNames |->
        IF n \in CsvNames
        THEN ins[CHOOSE k \in 1..Len(items) : items[k][1] = n]
        ELSE outs[CHOOSE k \in 1..Len(items) : items[k][2] = n]]

Init ==
    /\ \E ins \in [1..Len(items) -> RunInputs] :
       \E outs \in [1..Len(items) -> {NoFile, OldOutput}] :
           fs = Directory(ins, outs)
    /\ console = <<>>
    /\ pc = "start"
    /\ idx = 0
    /\ run = 1
    /\ first = Snapshot(fs, <<>>, "start")
    /\ writes = <<>>
    /\ zero_cols = {}
    /\ cell = <<>> /\ result = Unset /\ tieUp = FALSE

Next == Start \/ Missing \/ Convert \/ Finish \/ Rerun

Spec == Init /\ [][Next]_vars

(***************************************************************************)
(* SpecConvert: one call of convert on an input of up to MaxRows rows.     *)
(***************************************************************************)
ConvHeaders ==
    {<<"timestamps", "a">>, <<"a", "date">>, <<"month", "b">>, <<"a">>, <<"date">>}

\* no cell here is a rounding tie, so tieUp is not consulted
ConvCells ==
    {<<" ">>, <<"0">>, <<"0", ".", "0">>, <<"5">>, <<" ", "a">>}

\* the directory of a single conversion: entry 1 holds the input t and the
\* output old, every other configured file is missing
ConvDirectory(t, old) ==
    Directory([k \in 1..Len(items) |-> IF k = 1 THEN t ELSE NoFile],
              [k \in 1..Len(items) |-> IF k = 1 THEN old ELSE NoFile])

InitConvert ==
    /\ \E h \in ConvHeaders :
       \E n \in 1..MaxRows :
       \E rows \in [1..n -> RowsOver(h, ConvCells)] :
       \E old \in {NoFile, OldOutput} :
           fs = ConvDirectory(CsvFile(h, rows), old)
    /\ console = <<StartBanner>>
    /\ pc = "loop"
    /\ idx = 1
    /\ run = 1
    /\ first = Snapshot(fs, <<>>, "start")
    /\ writes = <<>>
    /\ zero_cols = {}
    /\ cell = <<>> /\ result = Unset /\ tieUp = FALSE

NextConvert == Convert

SpecConvert == InitConvert /\ [][NextConvert]_vars

(***************************************************************************)
(* Properties.                                                             *)
(***************************************************************************)
Range(s) == {s[i] : i \in 1..Len(s)}

\* the configured input and output of entry k, read off FILE_MAP itself
csv_of(k) == FILE_MAP[k][1]

json_of(k) == FILE_MAP[k][2]

\* the stripped cell v parses as a number equal to zero
IsZeroNumber(v) == float(v).ok /\ ~float(v).inf /\ float(v).m = 0

\* r is the double f rounded to two decimal places, to either side of a tie
IsRounded2(f, r) ==
    /\ r.kind = "float"
    /\ r.neg = f.neg
    /\ r.e >= -2
    /\ IF f.e >= -2 THEN r.m = f.m /\ r.e = f.e
       ELSE LET k == 0 - f.e - 2
                H == r.m * Pow10(r.e + 2)
            IN  IF k > NumDigits(f.m) THEN r.m = 0
                ELSE LET d == f.m - H * Pow10(k)
                     IN  2 * d <= Pow10(k) /\ 2 * d >= 0 - Pow10(k)

\* C1: a run of main never aborts: whatever the inputs are, it visits every
\* configured entry, prints the completion banner last and ends normally.
C1_RunNeverAborts ==
    /\ pc # "aborted"
    /\ pc = "done" => idx = Len(items) + 1 /\ console[Len(console)] = DoneBanner

\* C2: after convert ran on an input with at least one data row, a header column
\* is in the drop set exactly when it is named date or month, or it is not named
\* timestamps and each of its cells is empty after trimming or parses as a number
\* equal to zero; date and month are never keys of the output, timestamps always is.
C2_DropSetRule ==
    (idx = 2 \/ pc = "aborted") =>
        LET f    == fs[csv_of(1)]
            keys == {fs[json_of(1)].doc[j].key : j \in 1..Len(fs[json_of(1)].doc)}
        IN  /\ \A j \in 1..Len(f.header) :
                 (f.header[j] \in zero_cols) <=>
                    \/ f.header[j] \in {"date", "month"}
                    \/ /\ f.header[j] # "timestamps"
                       /\ \A i \in 1..Len(f.rows) :
                            \/ strip(f.rows[i][j]) = <<>>
                            \/ IsZeroNumber(strip(f.rows[i][j]))
            /\ writes # <<>> =>
                 /\ keys \cap {"date", "month"} = {}
                 /\ "timestamps" \in Range(f.header) => "timestamps" \in keys

\* C2 witness: a column of blank cells was dropped and an all-zero timestamps kept
C2_Witness ==
    /\ idx = 2
    /\ fs[csv_of(1)].header = <<"timestamps", "a">>
    /\ fs[csv_of(1)].rows = << <<<<"0">>, <<" ">>>>, <<<<"0", ".", "0">>, <<" ">>>> >>
    /\ zero_cols = {"a"}
    /\ Len(fs[json_of(1)].doc) = 1
    /\ fs[json_of(1)].doc[1].key = "timestamps"

\* C3: the document convert wrote has as keys exactly the header columns outside
\* the drop set, in header order, and each key's array has one element per data
\* row, the i-th being parse_value of that column's cell in row i.
C3_DocumentShape ==
    writes # <<>> =>
        LET f    == fs[csv_of(1)]
            doc  == fs[json_of(1)].doc
            kept == SelectSeq(f.header, LAMBDA c : c \notin zero_cols)
        IN  /\ Len(doc) = Len(kept)
            /\ \A j \in 1..Len(kept) :
                 /\ doc[j].key = kept[j]
                 /\ Len(doc[j].vals) = Len(f.rows)
                 /\ \A i \in 1..Len(f.rows) :
                      doc[j].vals[i] =
                          parse_value(f.rows[i][Find(f.header, {kept[j]})], tieUp)

\* C3 witness: two columns of two rows were written, a string among the values
C3_Witness ==
    /\ idx = 2
    /\ writes = <<json_of(1)>>
    /\ fs[csv_of(1)].header = <<"timestamps", "a">>
    /\ fs[csv_of(1)].rows = << <<<<"0">>, <<"5">>>>, <<<<" ">>, <<" ", "a">>>> >>
    /\ Len(fs[json_of(1)].doc) = 2
    /\ fs[json_of(1)].doc[2].vals = <<IntVal(FALSE, 5), StrVal(<<"a">>)>>

\* C4: parse_value returns None for a whitespace-only cell, the integer value for
\* a cell that parses as a whole number and holds no ".", and the value rounded
\* to two decimal places, as a float, for every other cell that parses as a number.
C4_Coercion ==
    pc = "parsed" =>
        LET v == strip(cell)
            f == float(v)
        IN  /\ v = <<>> => result = NoneVal
            /\ (v # <<>> /\ f.ok /\ ~f.inf /\ IsWhole(f) /\ Find(v, {"."}) = 0) =>
                 /\ result.kind = "int"
                 /\ Normalize(result.m, 0) = <<f.m, f.e>>
                 /\ result.neg = (f.neg /\ f.m # 0)
            /\ (v # <<>> /\ f.ok /\ ~(~f.inf /\ IsWhole(f) /\ Find(v, {"."}) = 0)) =>
                 /\ ~f.inf
                 /\ IsRounded2(f, result)

\* C5 as stated: a cell that is not whitespace-only and does not parse as a
\* number comes back as the original string, surrounding whitespace included.
C5_FallbackUnchanged ==
    (pc = "parsed" /\ strip(cell) # <<>> /\ ~float(strip(cell)).ok) =>
        result = StrVal(cell)

\* C5 as amended: a cell that is not whitespace-only and does not parse as a
\* number comes back as the string with its surrounding whitespace removed, the
\* characters between unchanged, and no error is raised for it.
C5_FallbackStripped ==
    (pc = "parsed" /\ strip(cell) # <<>> /\ ~float(strip(cell)).ok) =>
        /\ ~IsRaised(result)
        /\ result = StrVal(strip(cell))

\* C5 witness: a padded word came back without its padding
C5_Witness ==
    /\ pc = "parsed"
    /\ cell = <<" ", "a", "-", "a", " ">>
    /\ result = StrVal(<<"a", "-", "a">>)

\* C6: the step of main on an entry whose input is missing, or has no data row,
\* leaves every file as it was (no output is created or changed), appends exactly
\* the MISSING or SKIP notice of that entry to the console and no report, and
\* moves on to the next entry.
C6_SkippedEntryUntouched ==
    [][(pc = "loop" /\ idx <= Len(items)
          /\ (~fs[csv_of(idx)].exists \/ fs[csv_of(idx)].rows = <<>>)) =>
       /\ fs' = fs
       /\ writes' = writes
       /\ console' = Append(console, IF fs[csv_of(idx)].exists
                                     THEN SkipLine(csv_of(idx))
                                     ELSE MissingLine(csv_of(idx)))
       /\ pc' = "loop"
       /\ idx' = idx + 1]_vars

\* C6 witness: a header-only first input and a missing second one were passed
\* over, the output left over for the first still in place
C6_Witness ==
    /\ run = 1 /\ pc = "loop" /\ idx = 3
    /\ fs[csv_of(1)].exists /\ fs[csv_of(1)].rows = <<>>
    /\ ~fs[csv_of(2)].exists
    /\ fs[json_of(1)] = OldOutput
    /\ ~fs[json_of(2)].exists
    /\ console = <<StartBanner, SkipLine(csv_of(1)), MissingLine(csv_of(2))>>

\* C7: every output file written in this run has exactly one report line on the
\* console, and the line gives the number of data rows, the retained and total
\* column counts and the sorted drop set (or none).
C7_ReportPerWrittenFile ==
    \A k \in 1..Len(items) :
        json_of(k) \in Range(writes) =>
            LET f  == fs[csv_of(k)]
                zc == find_zero_cols(f.header, f.rows)
                at == {j \in 1..Len(console) :
                          console[j].kind = "report" /\ console[j].csv = csv_of(k)}
            IN  /\ Cardinality(at) = 1
                /\ \A j \in at :
                     console[j] = ReportLine(csv_of(k), json_of(k), Len(f.rows),
                                             Len(f.header), Cardinality(zc), zc)

\* C8: the console of a run is the start banner, then one line (report, MISSING
\* or SKIP) per handled entry in the order of FILE_MAP, each entry once, then the
\* completion banner after the line of the last entry.
C8_ConsoleOrder ==
    /\ pc = "start" => console = <<>>
    /\ pc \in {"loop", "aborted"} => Len(console) = idx
    /\ pc = "done" =>
          Len(console) = Len(items) + 2 /\ console[Len(console)] = DoneBanner
    /\ console # <<>> => console[1] = StartBanner
    /\ \A j \in 2..Len(console) :
          \/ j = Len(items) + 2 /\ console[j] = DoneBanner
          \/ /\ j <= Len(items) + 1
             /\ console[j].kind \in {"report", "MISSING", "SKIP"}
             /\ console[j].csv = csv_of(j - 1)

\* C8 witness: a finished run that reported the first entry and missed the second
C8_Witness ==
    /\ pc = "done"
    /\ console[2].kind = "report" /\ console[2].csv = csv_of(1)
    /\ console[3].kind = "MISSING" /\ console[3].csv = csv_of(2)

\* C9: when the second of two successive runs has ended, every file holds what
\* it held when the first run ended, and the console shows the same lines.
C9_Idempotent ==
    (run = 2 /\ pc \in {"done", "aborted"}) =>
        /\ fs = first.fs
        /\ console = first.console
        /\ pc = first.pc

\* C9 witness: a second run that converted an entry over the output of the first
C9_Witness ==
    /\ run = 2 /\ pc = "done"
    /\ json_of(1) \in Range(writes)
    /\ console[2].kind = "report"
    /\ fs[json_of(1)] # OldOutput

\* C10: a run writes only output names of entries whose input exists and has a
\* data row, never an input name, and each path at most once; every input, and
\* every output it did not write, is as it was when the run started.
C10_WriteFrame ==
    /\ \A i \in 1..Len(writes) :
          /\ \E k \in 1..Len(items) :
                /\ writes[i] = json_of(k)
                /\ fs[csv_of(k)].exists /\ fs[csv_of(k)].rows # <<>>
          /\ \A k \in 1..Len(items) : writes[i] # csv_of(k)
          /\ \A j \in 1..Len(writes) : j # i => writes[j] # writes[i]
    /\ \A k \in 1..Len(items) :
          /\ fs[csv_of(k)] = first.fs[csv_of(k)]
          /\ json_of(k) \notin Range(writes) => fs[json_of(k)] = first.fs[json_of(k)]

\* C10 witness: both entries were converted, each into its own output
C10_Witness ==
    /\ run = 1 /\ pc = "done"
    /\ writes = <<json_of(1), json_of(2)>>
    /\ fs[json_of(1)] # first.fs[json_of(1)]
    /\ fs[json_of(2)] # first.fs[json_of(2)]

====
